---- MODULE Spec2Model ----
(***************************************************************************)
(* Model of src/App.tsx (the "bomiom" benefits application): the address   *)
(* validator of the Home page, the recency classifier and the update       *)
(* status of a benefit list, and the page/user/region state of App.        *)
(*                                                                         *)
(* Strings are sequences of one-character tokens.  The module is ASCII, so *)
(* the Hangul syllables the code names are written in romanised form:      *)
(*   "si" = U+C2DC, "do" = U+B3C4, "gu" = U+AD6C (and U+AD70 "gun", which  *)
(*   every rule of the code treats exactly like "gu"), "ga" = any other    *)
(*   syllable of the range U+AC00..U+D7A3, "a" = a character that is       *)
(*   neither Hangul nor white space, " " = U+0020, "TAB" = any other white *)
(*   space character (matched by \s and removed by trim, but not " ").     *)
(***************************************************************************)
EXTENDS Integers, Sequences, FiniteSets, TLC

\* ------------------------------------------------------------------ bounds
MaxLen == 6
MaxInFlight == 2
MaxList == 3

\* -------------------------------------------------------------- characters
Hangul == {"si", "do", "gu", "ga"}
WhiteSpace == {" ", "TAB"}
Chars == Hangul \cup {"a"} \cup WhiteSpace

\* ------------------------------------------------- String.prototype helpers
\* text.trim()
RECURSIVE trimStart(_)
trimStart(s) ==
  IF s = <<>> THEN s
  ELSE IF Head(s) \in WhiteSpace THEN trimStart(Tail(s)) ELSE s

RECURSIVE trimEnd(_)
trimEnd(s) ==
  IF s = <<>> THEN s
  ELSE IF s[Len(s)] \in WhiteSpace THEN trimEnd(SubSeq(s, 1, Len(s) - 1)) ELSE s

trim(s) == trimEnd(trimStart(s))

\* s.includes(c) for a one-character c
includes(s, c) == \E i \in 1..Len(s) : s[i] = c

\* s.endsWith(c) for a one-character c
endsWith(s, c) == Len(s) > 0 /\ s[Len(s)] = c

\* s.split(/\s+/): the pieces between maximal runs of white space
RECURSIVE skipWs(_, _)
skipWs(s, i) ==
  IF i <= Len(s) /\ s[i] \in WhiteSpace THEN skipWs(s, i + 1) ELSE i

RECURSIVE splitFrom(_, _, _)
splitFrom(s, i, cur) ==
  IF i > Len(s) THEN <<cur>>
  ELSE IF s[i] \in WhiteSpace THEN <<cur>> \o splitFrom(s, skipWs(s, i), <<>>)
  ELSE splitFrom(s, i + 1, Append(cur, s[i]))

splitWs(s) == splitFrom(s, 1, <<>>)

\* typoRegex.test(part), typoRegex = /[Hangul]+(si|do)[Hangul]+(si|gun|gu)$/
typoRegexTest(part) ==
  LET n == Len(part)
  IN \E k \in 2..(n - 2) :
       /\ part[k - 1] \in Hangul
       /\ part[k] \in {"si", "do"}
       /\ \A m \in (k + 1)..n : part[m] \in Hangul
       /\ part[n] \in {"si", "gu"}

\* ---------------------------------------------------------- error messages
\* The four message texts of validateSearchInput; rules 2 and 3 set the same text.
MsgRequired == "address-required"
MsgSpacing == "spacing"
MsgLevels == "province-and-city"
MsgDistrict == "district-detail"
NoMsg == ""

\* -------------------------------------------------- validateSearchInput
\* The value returned and the errorMsg state it leaves, given the errorMsg before.
validateSearchInputOrderSwapped(text, errorMsg) ==
  LET trimmed == trim(text)
      parts == splitWs(trimmed)
  IN IF Len(trimmed) = 0 THEN [ret |-> FALSE, errorMsg |-> MsgRequired]
     ELSE IF ~includes(trimmed, " ") THEN [ret |-> FALSE, errorMsg |-> MsgSpacing]
     ELSE IF Len(parts) = 2 /\ endsWith(parts[2], "si")
       THEN [ret |-> FALSE, errorMsg |-> MsgDistrict]
     ELSE IF \E i \in 1..Len(parts) : typoRegexTest(parts[i])
       THEN [ret |-> FALSE, errorMsg |-> MsgSpacing]
     ELSE [ret |-> TRUE, errorMsg |-> errorMsg]

\* Variants of validateSearchInput with one rule changed
validateSearchInputNoSpaceRule(text, errorMsg) ==
  LET trimmed == trim(text)
      parts == splitWs(trimmed)
  IN IF Len(trimmed) = 0 THEN [ret |-> FALSE, errorMsg |-> MsgRequired]
     ELSE IF \E i \in 1..Len(parts) : typoRegexTest(parts[i])
       THEN [ret |-> FALSE, errorMsg |-> MsgSpacing]
     ELSE IF Len(parts) < 2 THEN [ret |-> FALSE, errorMsg |-> MsgLevels]
     ELSE IF Len(parts) = 2 /\ endsWith(parts[2], "si")
       THEN [ret |-> FALSE, errorMsg |-> MsgDistrict]
     ELSE [ret |-> TRUE, errorMsg |-> errorMsg]

validateSearchInputAnyLength(text, errorMsg) ==
  LET trimmed == trim(text)
      parts == splitWs(trimmed)
  IN IF Len(trimmed) = 0 THEN [ret |-> FALSE, errorMsg |-> MsgRequired]
     ELSE IF ~includes(trimmed, " ") THEN [ret |-> FALSE, errorMsg |-> MsgSpacing]
     ELSE IF \E i \in 1..Len(parts) : typoRegexTest(parts[i])
       THEN [ret |-> FALSE, errorMsg |-> MsgSpacing]
     ELSE IF Len(parts) < 2 THEN [ret |-> FALSE, errorMsg |-> MsgLevels]
     ELSE IF Len(parts) >= 2 /\ endsWith(parts[2], "si")
       THEN [ret |-> FALSE, errorMsg |-> MsgDistrict]
     ELSE [ret |-> TRUE, errorMsg |-> errorMsg]

validateSearchInputSilent(text, errorMsg) ==
  LET trimmed == trim(text)
      parts == splitWs(trimmed)
  IN IF Len(trimmed) = 0 THEN [ret |-> FALSE, errorMsg |-> MsgRequired]
     ELSE IF ~includes(trimmed, " ") THEN [ret |-> FALSE, errorMsg |-> MsgSpacing]
     ELSE IF \E i \in 1..Len(parts) : typoRegexTest(parts[i])
       THEN [ret |-> FALSE, errorMsg |-> MsgSpacing]
     ELSE IF Len(parts) < 2 THEN [ret |-> FALSE, errorMsg |-> MsgLevels]
     ELSE IF Len(parts) = 2 /\ endsWith(parts[2], "si")
       THEN [ret |-> FALSE, errorMsg |-> errorMsg]
     ELSE [ret |-> TRUE, errorMsg |-> errorMsg]

\* validateSearchInput with the space looked for in the text as typed
validateSearchInputSpaceUntrimmed(text, errorMsg) ==
  LET trimmed == trim(text)
      parts == splitWs(trimmed)
  IN IF Len(trimmed) = 0 THEN [ret |-> FALSE, errorMsg |-> MsgRequired]
     ELSE IF ~includes(text, " ") THEN [ret |-> FALSE, errorMsg |-> MsgSpacing]
     ELSE IF \E i \in 1..Len(parts) : typoRegexTest(parts[i])
       THEN [ret |-> FALSE, errorMsg |-> MsgSpacing]
     ELSE IF Len(parts) < 2 THEN [ret |-> FALSE, errorMsg |-> MsgLevels]
     ELSE IF Len(parts) = 2 /\ endsWith(parts[2], "si")
       THEN [ret |-> FALSE, errorMsg |-> MsgDistrict]
     ELSE [ret |-> TRUE, errorMsg |-> errorMsg]

validateSearchInput(text, errorMsg) ==
  LET trimmed == trim(text)
      parts == splitWs(trimmed)
  IN IF Len(trimmed) = 0 THEN [ret |-> FALSE, errorMsg |-> MsgRequired]
     ELSE IF ~includes(trimmed, " ") THEN [ret |-> FALSE, errorMsg |-> MsgSpacing]
     ELSE IF \E i \in 1..Len(parts) : typoRegexTest(parts[i])
       THEN [ret |-> FALSE, errorMsg |-> MsgSpacing]
     ELSE IF Len(parts) < 2 THEN [ret |-> FALSE, errorMsg |-> MsgLevels]
     ELSE IF Len(parts) = 2 /\ endsWith(parts[2], "si")
       THEN [ret |-> FALSE, errorMsg |-> MsgDistrict]
     ELSE [ret |-> TRUE, errorMsg |-> errorMsg]

\* ===================================================================== dates
\* A date string is a sequence over the digits, "." and "a" (a character that
\* is no digit, dot, sign or white space); Undefined is an absent field.
\* Undefined is a one-element sequence whose element is no character.  A JavaScript
\* number is [nan, v]: NaN, or the integer v.
Undefined == <<"undefined">>
NaN == [nan |-> TRUE, v |-> 0]
Num(n) == [nan |-> FALSE, v |-> n]
Digits == <<"0", "1", "2", "3", "4", "5", "6", "7", "8", "9">>
DigitSet == {Digits[i] : i \in 1..10}
DigitValue(c) == (CHOOSE i \in 1..10 : Digits[i] = c) - 1

\* Digits of a natural number, and the same padded to two digits
RECURSIVE numStr(_)
numStr(n) == IF n < 10 THEN <<Digits[n + 1]>> ELSE Append(numStr(n \div 10), Digits[(n % 10) + 1])
pad2(n) == IF n < 10 THEN <<"0">> \o numStr(n) ELSE numStr(n)

\* dateString.split('.'): the pieces between the dots, empty pieces included
RECURSIVE splitDotFrom(_, _, _)
splitDotFrom(s, i, cur) ==
  IF i > Len(s) THEN <<cur>>
  ELSE IF s[i] = "." THEN <<cur>> \o splitDotFrom(s, i + 1, <<>>)
  ELSE splitDotFrom(s, i + 1, Append(cur, s[i]))

splitDot(s) == splitDotFrom(s, 1, <<>>)

\* Number(part) on this alphabet: the empty string is 0, a run of digits is its
\* decimal value, anything else is NaN.
RECURSIVE decimalValue(_)
decimalValue(s) ==
  IF s = <<>> THEN 0
  ELSE 10 * decimalValue(SubSeq(s, 1, Len(s) - 1)) + DigitValue(s[Len(s)])

Number(part) ==
  IF \A i \in 1..Len(part) : part[i] \in DigitSet THEN Num(decimalValue(part)) ELSE NaN

\* Days from 1970-01-01 to the first day of month index mn (0..11) of year y,
\* in the proleptic Gregorian calendar (ECMAScript MakeDay).
DayFromYearMonth(y, mn) ==
  LET m == mn + 1
      yy == IF m <= 2 THEN y - 1 ELSE y
      era == yy \div 400
      yoe == yy - era * 400
      mp == IF m > 2 THEN m - 3 ELSE m + 9
      doy == (153 * mp + 2) \div 5
      doe == yoe * 365 + yoe \div 4 - yoe \div 100 + doy
  IN era * 146097 + doe - 719468

\* new Date(year, monthIndex, day) at local midnight, as [day, ms]: a two-digit
\* year counts from 1900, and a month index or a day out of range rolls over.
\* Times are kept as (day, millisecond of the day): 30 days of milliseconds
\* exceed 32-bit integer arithmetic.  Local days all have MsPerDay
\* milliseconds (the application's time zone has no daylight saving).
MsPerDay == 86400000
RecentDays == 30

\* An invalid Date is [nan |-> TRUE]; isNaN(date.getTime()) reads the flag.
InvalidDate == [nan |-> TRUE, day |-> 0, ms |-> 0]

newDate(year, monthIndex, day) ==
  IF year.nan \/ monthIndex.nan \/ day.nan THEN InvalidDate
  ELSE LET yr == IF year.v >= 0 /\ year.v <= 99 THEN 1900 + year.v ELSE year.v
           ym == yr + (monthIndex.v \div 12)
           mn == monthIndex.v % 12
       IN [nan |-> FALSE, day |-> DayFromYearMonth(ym, mn) + day.v - 1, ms |-> 0]

\* a - b for a number a that may be NaN
minus(a, b) == IF a.nan THEN NaN ELSE Num(a.v - b)

\* now.getTime() - date.getTime(), as whole days and the milliseconds left over
timeDiff(a, b) ==
  IF a.ms >= b.ms THEN [days |-> a.day - b.day, ms |-> a.ms - b.ms]
  ELSE [days |-> a.day - b.day - 1, ms |-> a.ms - b.ms + MsPerDay]

\* diffDays >= 0 && diffDays <= 30 where diffDays = diffTime / (1000 * 3600 * 24)
inRecentWindowFloored(diffTime) ==
  diffTime.days >= 0 /\ diffTime.days <= RecentDays

inRecentWindow(diffTime) ==
  /\ diffTime.days >= 0
  /\ \/ diffTime.days < RecentDays
     \/ diffTime.days = RecentDays /\ diffTime.ms = 0

isRecentUpdate(dateString, now) ==
  IF dateString = Undefined \/ dateString = <<>> THEN FALSE
  ELSE LET parts == splitDot(dateString)
       IN IF Len(parts) # 3 THEN FALSE
          ELSE LET date == newDate(Number(parts[1]),
                             minus(Number(parts[2]), 1), Number(parts[3]))
               IN IF date.nan THEN FALSE
                  ELSE inRecentWindow(timeDiff(now, date))

checkUpdateStatusIgnoringRecency(benefits, now) ==
  [hasNew |-> \E i \in 1..Len(benefits) : benefits[i].updateType = "NEW",
   hasUpdate |-> \E i \in 1..Len(benefits) : benefits[i].updateType = "UPDATE"]

\* checkUpdateStatus(benefits), evaluated at the moment now
checkUpdateStatus(benefits, now) ==
  [hasNew |-> \E i \in 1..Len(benefits) :
                 isRecentUpdate(benefits[i].lastUpdated, now)
                 /\ benefits[i].updateType = "NEW",
   hasUpdate |-> \E i \in 1..Len(benefits) :
                 isRecentUpdate(benefits[i].lastUpdated, now)
                 /\ benefits[i].updateType = "UPDATE"]

\* ---------------------------------------------------- computeCategoryBadges
\* badges is a function from the keys set so far to { hasNew, hasUpdate }.
NoBadge == [hasNew |-> FALSE, hasUpdate |-> FALSE]

\* const badges = {}
emptyBadgesWithAll == [k \in {"ALL"} |-> NoBadge]

emptyBadges == [k \in {} |-> NoBadge]

\* if (!badges[key]) badges[key] = { hasNew: false, hasUpdate: false }
ensureBadge(badges, key) ==
  IF key \in DOMAIN badges THEN badges
  ELSE [k \in DOMAIN badges \cup {key} |-> IF k = key THEN NoBadge ELSE badges[k]]

\* The assignments made for a recent benefit of category cat
markBadgesUpdateAsNew(badges, cat, updateType) ==
  IF updateType \in {"NEW", "UPDATE"}
    THEN [badges EXCEPT ![cat].hasNew = TRUE, !["ALL"].hasNew = TRUE]
  ELSE badges

markBadgesOwnOnly(badges, cat, updateType) ==
  IF updateType = "NEW" THEN [badges EXCEPT ![cat].hasNew = TRUE]
  ELSE IF updateType = "UPDATE" THEN [badges EXCEPT ![cat].hasUpdate = TRUE]
  ELSE badges

markBadges(badges, cat, updateType) ==
  IF updateType = "NEW"
    THEN [badges EXCEPT ![cat].hasNew = TRUE, !["ALL"].hasNew = TRUE]
  ELSE IF updateType = "UPDATE"
    THEN [badges EXCEPT ![cat].hasUpdate = TRUE, !["ALL"].hasUpdate = TRUE]
  ELSE badges

\* The callback of benefits.forEach, applied to benefit b
badgesForEach(badges, b, now) ==
  LET cat == b.category
      withAll == ensureBadge(ensureBadge(badges, cat), "ALL")
      isRecent == isRecentUpdate(b.lastUpdated, now)
  IN IF isRecent THEN markBadges(withAll, cat, b.updateType) ELSE withAll

RECURSIVE badgesFrom(_, _, _, _)
badgesFrom(benefits, i, badges, now) ==
  IF i > Len(benefits) THEN badges
  ELSE badgesFrom(benefits, i + 1, badgesForEach(badges, benefits[i], now), now)

\* computeCategoryBadges(benefits), evaluated at the moment now
computeCategoryBadges(benefits, now) == badgesFrom(benefits, 1, emptyBadges, now)

\* ================================================================ the state
VARIABLES
  page,          \* App: the page displayed
  user,          \* App: the current user, or NullUser
  region,        \* App: the region searched
  loginBaseInfo, \* App: what the last successful login returned, or NoInfo
  stored,        \* authService: the persisted user, or NullUser
  home,          \* HomePage: [input, errorMsg]
  login,         \* LoginPage: [isLoading]
  signup,        \* SignupPage: [nickname, address, privacyAgreed, submitting, nicknameError]
  myinfo,        \* MyInfoPage: [address, isSaving]
  result,        \* ResultPage: [loading, benefits]
  logins,        \* loginWithKakao calls in flight: <<[live]>>
  checks,        \* checkNicknameAvailability calls in flight: <<[nickname, address, live]>>
  signupTimers,  \* pending 500 ms timers of SignupPage.handleSubmit: <<newUser>>
  saveTimers,    \* pending 600 ms timers of MyInfoPage.handleSave: <<[user, live]>>
  fetches,       \* fetchBenefits calls in flight: <<[region, live]>>
  call,          \* the call the last step made: [fn, arg, ret, errorMsg, alerts],
                 \* errorMsg being the errorMsg state the call left and alerts
                 \* the messages the step showed with alert(); fn is "rejected"
                 \* in a step in which the promise of the operation arg rejects
  now,           \* the clock: [y, m, d, ms], local time
  dateString,    \* the lastUpdated string under classification
  benefitList,   \* the benefit list under aggregation
  alllocal,      \* AllLocalBenefitsPage: [benefits, loading, tab, selectedSido,
                 \* districtInput] and what its last render computed:
                 \* [filteredBenefits, displayBenefits, latestDate]
  loads          \* getAllLocalBenefits calls in flight: <<[address]>>

appVars == <<page, user, region, loginBaseInfo, stored, home, login, signup, myinfo,
             result, logins, checks, signupTimers, saveTimers, fetches>>
\* The inputs of the helpers and the state of AllLocalBenefitsPage, which the
\* specifications of the helpers and of the pages take one at a time
pureVars == <<now, dateString, benefitList, alllocal, loads>>
vars == <<appVars, call, pureVars>>

\* "live" marks an asynchronous continuation whose component instance is still
\* mounted: a state setter of an unmounted instance changes nothing.
NullUser == [isNull |-> TRUE, nickname |-> <<>>, address |-> Undefined,
             privacyAgreed |-> FALSE]
NoInfo == [isNull |-> TRUE, nickname |-> <<>>]
\* What loginWithKakao of services/authService resolves with: a nickname or none
KakaoSamples == {[isNull |-> FALSE, nickname |-> n] : n \in {<<"a">>, <<>>}}
NoCall == [fn |-> "none", arg |-> <<>>, ret |-> FALSE, errorMsg |-> "", alerts |-> <<>>]
MsgNicknameRequired == "nickname-required"
MsgNicknameTaken == "nickname-taken"

\* !s for an optional string
falsy(s) == s = Undefined \/ s = <<>>

\* Inputs of the application specification: one address per verdict of the validator.
AddrValid == <<"ga", "do", " ", "ga", "gu">>
AddrDistrict == <<"ga", "do", " ", "ga", "si">>
AddrOneToken == <<"ga", "gu">>
AddrPadded == <<" ">> \o AddrValid \o <<"TAB">>
HomeSamples == {AddrPadded, AddrDistrict, <<" ">>}
SignupAddrSamples == {AddrValid, AddrOneToken}
MyInfoAddrSamples == {AddrValid, <<>>}
NickSamples == {<<"a">>, <<" ">>}
StoredSamples == {NullUser,
                  [isNull |-> FALSE, nickname |-> <<"a">>, address |-> AddrValid,
                   privacyAgreed |-> TRUE]}

\* fetchBenefits(region) of services/benefitService: the combined national, local
\* and private list for a region.  The list is one of those the service can
\* answer with, its local benefits being those of the region.
fetchBenefits(list, r) ==
  [i \in 1..Len(list) |->
     IF list[i].source = "GOV_LOCAL" THEN [list[i] EXCEPT !.regionTarget = r]
     ELSE list[i]]

\* Benefits by source; "OTHER" is a source value outside BenefitSource
SourceBenefit(source) ==
  [id |-> 0, source |-> source, category |-> "GOV", regionTarget |-> Undefined,
   lastUpdated |-> Undefined, updateType |-> "none"]
SourceSamples ==
  {SourceBenefit(src) : src \in {"GOV_NATIONAL", "GOV_LOCAL", "PRIVATE", "OTHER"}}
\* The answer of the service in the application specification
FetchSamples ==
  {<<[SourceBenefit("GOV_NATIONAL") EXCEPT !.id = 1],
     [SourceBenefit("GOV_LOCAL") EXCEPT !.id = 2],
     [SourceBenefit("PRIVATE") EXCEPT !.id = 3]>>}

\* ------------------------------------------------ component initial states
HomeInit(u) ==
  [input |-> IF u.isNull \/ falsy(u.address) THEN <<>> ELSE u.address,
   errorMsg |-> NoMsg]
LoginInit == [isLoading |-> FALSE]
SignupInit(baseInfo) ==
  [nickname |-> baseInfo.nickname, address |-> <<>>, privacyAgreed |-> FALSE,
   submitting |-> FALSE, nicknameError |-> NoMsg]
MyInfoInit(u) ==
  [address |-> IF u.isNull \/ falsy(u.address) THEN <<>> ELSE u.address,
   isSaving |-> FALSE]
ResultInit ==
  [loading |-> TRUE, benefits |-> <<>>, nationalBenefits |-> <<>>,
   localBenefits |-> <<>>, privateBenefits |-> <<>>]

\* The asynchronous operations pending; a new one starts while CanStart holds.
InFlight(lg, ck, st, sv, fs) == Len(lg) + Len(ck) + Len(st) + Len(sv) + Len(fs)
CanStart == InFlight(logins, checks, signupTimers, saveTimers, fetches) < MaxInFlight

orphan(q) == [i \in 1..Len(q) |-> [q[i] EXCEPT !.live = FALSE]]
remove(q, i) == SubSeq(q, 1, i - 1) \o SubSeq(q, i + 1, Len(q))

\* HomePage's effect on [user]: the input follows the user's address
HomeUserEffect(h, u) ==
  IF ~u.isNull /\ ~falsy(u.address) THEN [h EXCEPT !.input = u.address]
  ELSE IF u.isNull THEN [h EXCEPT !.input = <<>>]
  ELSE h

\* The render that follows a handler: App's state becomes (p, u, r); userSet says
\* that setUser was given a new value.  A page that is left unmounts (its
\* continuations are orphaned), the page entered mounts with its initial state,
\* and the effects of the mounted page run: HomePage's on [user], ResultPage's on
\* [region] (which starts a fetch).  h, l, s, m, rs, lg, ck, st, sv, fs are the
\* component states and the operations pending as the handler left them.
Render(p, u, userSet, r, h, l, s, m, rs, lg, ck, st, sv, fs) ==
  LET fetchNow == p = "RESULT" /\ (page # "RESULT" \/ r # region)
  IN /\ fetchNow => InFlight(lg, ck, st, sv, fs) < MaxInFlight
     /\ page' = p
     /\ user' = u
     /\ region' = r
     /\ home' = IF p # "HOME" THEN HomeInit(NullUser)
                ELSE IF page # "HOME" THEN HomeInit(u)
                ELSE IF userSet THEN HomeUserEffect(h, u)
                ELSE h
     /\ login' = IF p # "LOGIN" THEN LoginInit
                 ELSE IF page # "LOGIN" THEN LoginInit ELSE l
     /\ signup' = IF p # "SIGNUP" THEN SignupInit(NoInfo)
                  ELSE IF page # "SIGNUP" THEN SignupInit(loginBaseInfo') ELSE s
     /\ myinfo' = IF p # "MY_INFO" THEN MyInfoInit(NullUser)
                  ELSE IF page # "MY_INFO" THEN MyInfoInit(u) ELSE m
     /\ result' = IF p # "RESULT" THEN ResultInit
                  ELSE IF page # "RESULT" THEN ResultInit
                  ELSE IF r # region THEN [rs EXCEPT !.loading = TRUE]
                  ELSE rs
     /\ logins' = IF page = "LOGIN" /\ p # "LOGIN" THEN orphan(lg) ELSE lg
     /\ checks' = IF page = "SIGNUP" /\ p # "SIGNUP" THEN orphan(ck) ELSE ck
     /\ signupTimers' = st
     /\ saveTimers' = IF page = "MY_INFO" /\ p # "MY_INFO" THEN orphan(sv) ELSE sv
     /\ fetches' = LET kept == IF page = "RESULT" /\ p # "RESULT" THEN orphan(fs) ELSE fs
                   IN IF fetchNow THEN Append(kept, [region |-> r, live |-> TRUE])
                      ELSE kept

\* A handler that changes App's state and nothing of the components
Goto(p, u, userSet, r) ==
  Render(p, u, userSet, r, home, login, signup, myinfo, result,
         logins, checks, signupTimers, saveTimers, fetches)

\* ================================================================= HomePage
\* What one edit of the text field can leave in it: a character more or one less
typed(s) ==
  {Append(s, c) : c \in {d \in Chars : Len(s) < MaxLen}}
    \cup (IF s = <<>> THEN {} ELSE {SubSeq(s, 1, Len(s) - 1)})

HomePage_handleInputChange(values) ==
  /\ page = "HOME"
  /\ \E text \in values : home' = [input |-> text, errorMsg |-> NoMsg]
  /\ call' = NoCall
  /\ UNCHANGED <<page, user, region, loginBaseInfo, stored, login, signup, myinfo,
                 result, logins, checks, signupTimers, saveTimers, fetches, pureVars>>

\* The submit button is disabled while the input is empty.
HomePage_handleSubmitUnchecked ==
  /\ page = "HOME"
  /\ Len(home.input) > 0
  /\ LET v == validateSearchInput(home.input, home.errorMsg)
         h == [home EXCEPT !.errorMsg = v.errorMsg]
     IN /\ call' = [fn |-> "validateSearchInput", arg |-> home.input, ret |-> v.ret,
                   errorMsg |-> v.errorMsg, alerts |-> <<>>]
        /\ Render("RESULT", user, FALSE, home.input, h, login, signup,
                  myinfo, result, logins, checks, signupTimers, saveTimers, fetches)
  /\ UNCHANGED <<loginBaseInfo, stored, pureVars>>

HomePage_handleSubmit ==
  /\ page = "HOME"
  /\ Len(home.input) > 0
  /\ LET v == validateSearchInput(home.input, home.errorMsg)
         h == [home EXCEPT !.errorMsg = v.errorMsg]
     IN /\ call' = [fn |-> "validateSearchInput", arg |-> home.input, ret |-> v.ret,
                   errorMsg |-> v.errorMsg, alerts |-> <<>>]
        /\ IF v.ret
             THEN \* onSearch(input.trim()) is App.handleSearch
                  Render("RESULT", user, FALSE, trim(home.input), h, login, signup,
                         myinfo, result, logins, checks, signupTimers, saveTimers, fetches)
             ELSE Render(page, user, FALSE, region, h, login, signup,
                         myinfo, result, logins, checks, signupTimers, saveTimers, fetches)
  /\ UNCHANGED <<loginBaseInfo, stored, pureVars>>

App_handleLoginClick ==
  /\ page = "HOME"
  /\ user.isNull
  /\ Goto("LOGIN", user, FALSE, region)
  /\ call' = NoCall
  /\ UNCHANGED <<loginBaseInfo, stored, pureVars>>

HomePage_onMyInfoClick ==
  /\ page = "HOME"
  /\ ~user.isNull
  /\ Goto("MY_INFO", user, FALSE, region)
  /\ call' = NoCall
  /\ UNCHANGED <<loginBaseInfo, stored, pureVars>>

App_handleLogout ==
  /\ page = "HOME"
  /\ ~user.isNull
  /\ stored' = NullUser
  /\ Goto("HOME", NullUser, TRUE, region)
  /\ call' = NoCall
  /\ UNCHANGED <<loginBaseInfo, pureVars>>

\* ================================================================ LoginPage
LoginPage_handleKakaoLogin ==
  /\ page = "LOGIN"
  /\ ~login.isLoading
  /\ CanStart
  /\ Render(page, user, FALSE, region, home, [isLoading |-> TRUE], signup, myinfo,
            result, Append(logins, [live |-> TRUE]), checks, signupTimers,
            saveTimers, fetches)
  /\ call' = NoCall
  /\ UNCHANGED <<loginBaseInfo, stored, pureVars>>

LoginPage_onCancel ==
  /\ page = "LOGIN"
  /\ Goto("HOME", user, FALSE, region)
  /\ call' = NoCall
  /\ UNCHANGED <<loginBaseInfo, stored, pureVars>>

\* loginWithKakao resolves: onLoginSuccess is App.handleLoginSuccess
LoginResolved ==
  \E i \in 1..Len(logins), baseInfo \in KakaoSamples :
    /\ loginBaseInfo' = baseInfo
    /\ Render("SIGNUP", user, FALSE, region, home,
              IF logins[i].live THEN [isLoading |-> FALSE] ELSE login,
              signup, myinfo, result, remove(logins, i), checks, signupTimers,
              saveTimers, fetches)
    /\ call' = [NoCall EXCEPT !.fn = "onLoginSuccess", !.arg = logins[i],
                              !.ret = baseInfo]
    /\ UNCHANGED <<stored, pureVars>>

LoginRejected ==
  \E i \in 1..Len(logins) :
    /\ Render(page, user, FALSE, region, home,
              IF logins[i].live THEN [isLoading |-> FALSE] ELSE login,
              signup, myinfo, result, remove(logins, i), checks, signupTimers,
              saveTimers, fetches)
    /\ call' = [NoCall EXCEPT !.fn = "rejected", !.arg = "loginWithKakao",
                              !.alerts = <<"login-failed">>]
    /\ UNCHANGED <<loginBaseInfo, stored, pureVars>>

\* =============================================================== SignupPage
SignupPage_edit ==
  /\ page = "SIGNUP"
  /\ \E f \in {"nickname", "address", "privacyAgreed"} :
       \/ /\ f = "nickname"
          /\ \E n \in NickSamples : signup' = [signup EXCEPT !.nickname = n]
       \/ /\ f = "address"
          /\ \E a \in SignupAddrSamples : signup' = [signup EXCEPT !.address = a]
       \/ /\ f = "privacyAgreed"
          /\ signup' = [signup EXCEPT !.privacyAgreed = ~signup.privacyAgreed]
  /\ call' = NoCall
  /\ UNCHANGED <<page, user, region, loginBaseInfo, stored, home, login, myinfo,
                 result, logins, checks, signupTimers, saveTimers, fetches, pureVars>>

\* handleSubmit without its test of the nickname
SignupPage_handleSubmitAnyNickname ==
  /\ page = "SIGNUP"
  /\ ~signup.submitting
  /\ signup.privacyAgreed
  /\ CanStart
  /\ signup' = [signup EXCEPT !.nicknameError = NoMsg, !.submitting = TRUE]
  /\ checks' = Append(checks, [nickname |-> signup.nickname,
                               address |-> signup.address, live |-> TRUE])
  /\ call' = [NoCall EXCEPT !.fn = "SignupPage.handleSubmit", !.arg = signup]
  /\ UNCHANGED <<page, user, region, loginBaseInfo, stored, home, login, myinfo,
                 result, logins, signupTimers, saveTimers, fetches, pureVars>>

\* The submit button is disabled while submitting or while privacy is not agreed.
SignupPage_handleSubmit ==
  /\ page = "SIGNUP"
  /\ ~signup.submitting
  /\ signup.privacyAgreed
  /\ LET s1 == [signup EXCEPT !.nicknameError = NoMsg]
     IN IF trim(signup.nickname) = <<>>
          THEN /\ signup' = [s1 EXCEPT !.nicknameError = MsgNicknameRequired]
               /\ checks' = checks
               /\ call' = [NoCall EXCEPT !.fn = "SignupPage.handleSubmit",
                                         !.arg = signup]
          ELSE IF ~signup.privacyAgreed
          THEN /\ signup' = s1
               /\ checks' = checks
               /\ call' = [NoCall EXCEPT !.fn = "SignupPage.handleSubmit",
                                         !.arg = signup, !.alerts = <<"privacy-required">>]
          ELSE /\ CanStart
               /\ signup' = [s1 EXCEPT !.submitting = TRUE]
               /\ checks' = Append(checks, [nickname |-> signup.nickname,
                                            address |-> signup.address,
                                            live |-> TRUE])
               /\ call' = [NoCall EXCEPT !.fn = "SignupPage.handleSubmit",
                                         !.arg = signup]
  /\ UNCHANGED <<page, user, region, loginBaseInfo, stored, home, login, myinfo,
                 result, logins, signupTimers, saveTimers, fetches, pureVars>>

SignupPage_onCancel ==
  /\ page = "SIGNUP"
  /\ Goto("HOME", user, FALSE, region)
  /\ call' = NoCall
  /\ UNCHANGED <<loginBaseInfo, stored, pureVars>>

\* The user the 500 ms timer will save, from the values handleSubmit captured
newUser(c) ==
  [isNull |-> FALSE, nickname |-> trim(c.nickname),
   address |-> IF c.address = <<>> THEN Undefined ELSE c.address,
   privacyAgreed |-> TRUE]

\* checkNicknameAvailability resolves with isAvailable
NicknameCheckResolved ==
  \E i \in 1..Len(checks), isAvailable \in BOOLEAN :
    /\ IF isAvailable
         THEN /\ signupTimers' = Append(signupTimers, newUser(checks[i]))
              /\ signup' = signup
         ELSE /\ signupTimers' = signupTimers
              /\ signup' = IF checks[i].live
                             THEN [signup EXCEPT !.nicknameError = MsgNicknameTaken,
                                                 !.submitting = FALSE]
                             ELSE signup
    /\ checks' = remove(checks, i)
    /\ call' = [NoCall EXCEPT !.fn = "checkNicknameAvailability", !.arg = checks[i],
                              !.ret = isAvailable]
    /\ UNCHANGED <<page, user, region, loginBaseInfo, stored, home, login, myinfo,
                   result, logins, saveTimers, fetches, pureVars>>

NicknameCheckRejected ==
  \E i \in 1..Len(checks) :
    /\ signup' = IF checks[i].live THEN [signup EXCEPT !.submitting = FALSE]
                 ELSE signup
    /\ checks' = remove(checks, i)
    /\ call' = [NoCall EXCEPT !.fn = "rejected", !.arg = "checkNicknameAvailability",
                              !.alerts = <<"error-occurred">>]
    /\ UNCHANGED <<page, user, region, loginBaseInfo, stored, home, login, myinfo,
                   result, logins, signupTimers, saveTimers, fetches, pureVars>>

\* App.handleSignupComplete(newUser): the page and region that follow
handleSignupCompletePage(u) == IF ~falsy(u.address) THEN "RESULT" ELSE "HOME"
handleSignupCompleteRegion(u) == IF ~falsy(u.address) THEN u.address ELSE region

\* The 500 ms timer fires: saveUser(newUser); onComplete(newUser)
SignupTimerFired ==
  \E i \in 1..Len(signupTimers) :
    LET u == signupTimers[i]
    IN /\ stored' = u
       /\ Render(handleSignupCompletePage(u), u, TRUE, handleSignupCompleteRegion(u),
                 home, login, signup, myinfo, result, logins, checks,
                 remove(signupTimers, i), saveTimers, fetches)
       /\ call' = [NoCall EXCEPT !.fn = "onComplete", !.arg = u]
       /\ UNCHANGED <<loginBaseInfo, pureVars>>

\* =============================================================== MyInfoPage
MyInfoPage_setAddress ==
  /\ page = "MY_INFO"
  /\ \E a \in MyInfoAddrSamples : myinfo' = [myinfo EXCEPT !.address = a]
  /\ call' = NoCall
  /\ UNCHANGED <<page, user, region, loginBaseInfo, stored, home, login, signup,
                 result, logins, checks, signupTimers, saveTimers, fetches, pureVars>>

\* The save button is disabled while saving.
MyInfoPage_handleSave ==
  /\ page = "MY_INFO"
  /\ ~myinfo.isSaving
  /\ CanStart
  /\ myinfo' = [myinfo EXCEPT !.isSaving = TRUE]
  /\ saveTimers' = Append(saveTimers,
                          [user |-> [user EXCEPT !.address = myinfo.address],
                           live |-> TRUE])
  /\ call' = NoCall
  /\ UNCHANGED <<page, user, region, loginBaseInfo, stored, home, login, signup,
                 result, logins, checks, signupTimers, fetches, pureVars>>

\* The 600 ms timer fires: saveUser, onUpdate (App.handleUpdateUser),
\* setIsSaving(false), alert, onBack
SaveTimerFired ==
  \E i \in 1..Len(saveTimers) :
    LET t == saveTimers[i]
    IN /\ stored' = t.user
       /\ Render("HOME", t.user, TRUE, region, home, login, signup,
                 IF t.live THEN [myinfo EXCEPT !.isSaving = FALSE] ELSE myinfo,
                 result, logins, checks, signupTimers, remove(saveTimers, i), fetches)
       /\ call' = [NoCall EXCEPT !.fn = "onUpdate", !.arg = t,
                                 !.alerts = <<"info-saved">>]
       /\ UNCHANGED <<loginBaseInfo, pureVars>>

MyInfoPage_onBack ==
  /\ page = "MY_INFO"
  /\ Goto("HOME", user, FALSE, region)
  /\ call' = NoCall
  /\ UNCHANGED <<loginBaseInfo, stored, pureVars>>

\* =============================================================== ResultPage
\* The navigation of the page with an onGoMyPage that does not test the user
ResultPage_navigateAnyUser ==
  /\ page = "RESULT"
  /\ ~result.loading
  /\ \E to \in {"HOME", "ALL_LOCAL", "MY_PAGE"} :
       Goto(IF to = "MY_PAGE" THEN "MY_INFO" ELSE to, user, FALSE, region)
  /\ call' = NoCall
  /\ UNCHANGED <<loginBaseInfo, stored, pureVars>>

\* While loading, the page renders only <Loading />: no button can be pressed.
ResultPage_navigate ==
  /\ page = "RESULT"
  /\ ~result.loading
  /\ \E to \in {"HOME", "ALL_LOCAL", "MY_PAGE"} :
       Goto(IF to = "MY_PAGE" THEN (IF user.isNull THEN "LOGIN" ELSE "MY_INFO") ELSE to,
            user, FALSE, region)
  /\ call' = NoCall
  /\ UNCHANGED <<loginBaseInfo, stored, pureVars>>

\* The predicates of the three filters of the render
isNational(b) == b.source = "GOV_NATIONAL"
isLocalNotNational(b) == b.source # "GOV_NATIONAL"
isLocal(b) == b.source = "GOV_LOCAL"
isPrivate(b) == b.source = "PRIVATE"

\* A render of ResultPage in the state rs: the three lists by source
ResultRender(rs) ==
  [rs EXCEPT !.nationalBenefits = SelectSeq(rs.benefits, isNational),
             !.localBenefits = SelectSeq(rs.benefits, isLocal),
             !.privateBenefits = SelectSeq(rs.benefits, isPrivate)]

\* Whether the continuation of load() for the fetch f sets the state: it does
\* whenever its component instance is mounted, whatever the region is by then.
setsStateIfCurrent(f) == f.live /\ f.region = region

setsState(f) == f.live

\* fetchBenefits resolves with one of lists: setBenefits(data); setLoading(false)
FetchResolved(lists) ==
  \E i \in 1..Len(fetches), list \in lists :
    LET data == fetchBenefits(list, fetches[i].region)
    IN /\ Render(page, user, FALSE, region, home, login, signup, myinfo,
                 IF setsState(fetches[i])
                   THEN ResultRender([result EXCEPT !.benefits = data,
                                                    !.loading = FALSE])
                   ELSE result,
                 logins, checks, signupTimers, saveTimers, remove(fetches, i))
       /\ call' = [fn |-> "fetchBenefits", arg |-> fetches[i], ret |-> data,
                   errorMsg |-> "", alerts |-> <<>>]
       /\ UNCHANGED <<loginBaseInfo, stored, pureVars>>

\* fetchBenefits rejects: load() has no catch, nothing is set
FetchRejected ==
  \E i \in 1..Len(fetches) :
    /\ fetches' = remove(fetches, i)
    /\ call' = [NoCall EXCEPT !.fn = "rejected", !.arg = "fetchBenefits",
                              !.alerts = <<>>]
    /\ UNCHANGED <<page, user, region, loginBaseInfo, stored, home, login, signup,
                   myinfo, result, logins, checks, signupTimers, saveTimers, pureVars>>

\* ===================================================== AllLocalBenefitsPage
AllLocalBenefitsPage_navigate ==
  /\ page = "ALL_LOCAL"
  /\ \E to \in {"HOME", "RESULT", "MY_PAGE"} :
       Goto(IF to = "MY_PAGE" THEN (IF user.isNull THEN "LOGIN" ELSE "MY_INFO") ELSE to,
            user, FALSE, region)
  /\ call' = NoCall
  /\ UNCHANGED <<loginBaseInfo, stored, pureVars>>

\* ------------------------------------------- AllLocalBenefitsPage: the list
\* SIDO_LIST, romanised; its first entry is the sentinel "all"
SIDO_LIST ==
  << <<"jeon", "che">>, <<"seo", "ul">>, <<"gyeong", "gi">>, <<"in", "cheon">>,
     <<"bu", "san">>, <<"dae", "gu">>, <<"gwang", "ju">>, <<"dae", "jeon">>,
     <<"ul", "san">>, <<"se", "jong">>, <<"gang", "won">>, <<"chung", "cheong">>,
     <<"jeol", "la">>, <<"gyeong", "sang">>, <<"je", "ju">> >>
SidoAll == SIDO_LIST[1]

\* An optional number: absent, or the number v
Missing == [missing |-> TRUE, v |-> 0]
Count(n) == [missing |-> FALSE, v |-> n]
\* getLatestUpdateDate's null
Null == <<"null">>

\* s.includes(q) for a string q
includesString(s, q) ==
  \E i \in 0..(Len(s) - Len(q)) : SubSeq(s, i + 1, i + Len(q)) = q

\* s?.includes(q): undefined, which is falsy, for an absent s
optionalIncludes(s, q) == IF s = Undefined THEN FALSE ELSE includesString(s, q)

\* The callback of benefits.filter
filterCallbackTitleOnly(b, selectedSido, districtInput) ==
  IF selectedSido # SidoAll /\ ~optionalIncludes(b.regionTarget, selectedSido) THEN FALSE
  ELSE IF Len(trim(districtInput)) > 0
    THEN includesString(b.title, trim(districtInput))
  ELSE TRUE

filterCallbackEither(b, selectedSido, districtInput) ==
  IF Len(trim(districtInput)) > 0
    THEN LET query == trim(districtInput)
         IN \/ includesString(b.title, query)
            \/ includesString(b.description, query)
            \/ optionalIncludes(b.regionTarget, query)
            \/ selectedSido # SidoAll /\ optionalIncludes(b.regionTarget, selectedSido)
  ELSE selectedSido = SidoAll \/ optionalIncludes(b.regionTarget, selectedSido)

filterCallbackAnyRegion(b, selectedSido, districtInput) ==
  IF selectedSido # SidoAll /\ b.regionTarget # Undefined
       /\ ~includesString(b.regionTarget, selectedSido) THEN FALSE
  ELSE IF Len(trim(districtInput)) > 0
    THEN LET query == trim(districtInput)
             inTitle == includesString(b.title, query)
             inDesc == includesString(b.description, query)
             inRegion == optionalIncludes(b.regionTarget, query)
         IN ~(~inTitle /\ ~inDesc /\ ~inRegion)
  ELSE TRUE

filterCallback(b, selectedSido, districtInput) ==
  IF selectedSido # SidoAll /\ ~optionalIncludes(b.regionTarget, selectedSido) THEN FALSE
  ELSE IF Len(trim(districtInput)) > 0
    THEN LET query == trim(districtInput)
             inTitle == includesString(b.title, query)
             inDesc == includesString(b.description, query)
             inRegion == optionalIncludes(b.regionTarget, query)
         IN ~(~inTitle /\ ~inDesc /\ ~inRegion)
  ELSE TRUE

\* x || 0 for an optional number, x || '' for an optional string
orZero(x) == IF x.missing THEN 0 ELSE x.v
orEmpty(s) == IF s = Undefined THEN <<>> ELSE s

\* a.localeCompare(b) on date strings: "." before the digits before letters
charRank(ch) ==
  IF ch = "." THEN 0 ELSE IF ch \in DigitSet THEN 1 + DigitValue(ch) ELSE 11
RECURSIVE localeCompare(_, _)
localeCompare(a, b) ==
  IF a = <<>> /\ b = <<>> THEN 0
  ELSE IF a = <<>> THEN 0 - 1
  ELSE IF b = <<>> THEN 1
  ELSE IF charRank(Head(a)) < charRank(Head(b)) THEN 0 - 1
  ELSE IF charRank(Head(a)) > charRank(Head(b)) THEN 1
  ELSE localeCompare(Tail(a), Tail(b))

\* (a, b) => (b.envyCount || 0) - (a.envyCount || 0)
envyCompare(a, b) == orZero(b.envyCount) - orZero(a.envyCount)
\* The comparison of lastUpdated with its operands exchanged: oldest first
lastUpdatedCompareAscending(a, b) ==
  localeCompare(orEmpty(a.lastUpdated), orEmpty(b.lastUpdated))

\* (a, b) => (b.lastUpdated || '').localeCompare(a.lastUpdated || '')
lastUpdatedCompare(a, b) == localeCompare(orEmpty(b.lastUpdated), orEmpty(a.lastUpdated))

\* compare(a, b) for the compare function named
callCompare(compare, a, b) ==
  IF compare = "envyCompare" THEN envyCompare(a, b) ELSE lastUpdatedCompare(a, b)

\* Array.prototype.sort(compare): a stable sort, in place.  The arrays of a
\* render are the fields of a store, so that a sort changes the array it is
\* called on and every name that array goes by.  order is the order of the
\* indices: each index is inserted before the first one it compares below.
RECURSIVE insertIndexBeforeTies(_, _, _)
insertIndexBeforeTies(order, x, c) ==
  IF order = <<>> THEN <<x>>
  ELSE IF c[<<x, Head(order)>>] <= 0 THEN <<x>> \o order
  ELSE <<Head(order)>> \o insertIndexBeforeTies(Tail(order), x, c)

RECURSIVE insertIndex(_, _, _)
insertIndex(order, x, c) ==
  IF order = <<>> THEN <<x>>
  ELSE IF c[<<x, Head(order)>>] < 0 THEN <<x>> \o order
  ELSE <<Head(order)>> \o insertIndex(Tail(order), x, c)

RECURSIVE sortIndices(_, _, _, _)
sortIndices(order, i, n, c) ==
  IF i > n THEN order ELSE sortIndices(insertIndex(order, i, c), i + 1, n, c)

\* arr sorted by the compare function named: "envyCompare" or "lastUpdatedCompare"
sorted(arr, compare) ==
  LET n == Len(arr)
      c == [p \in (1..n) \X (1..n) |-> callCompare(compare, arr[p[1]], arr[p[2]])]
      order == sortIndices(<<>>, 1, n, c)
  IN [k \in 1..n |-> arr[order[k]]]

Array_sort(store, ref, compare) ==
  [store EXCEPT ![ref] = sorted(store[ref], compare)]

\* [...store[from]] kept under the name to
spread(store, from, to) == [store EXCEPT ![to] = store[from]]

\* getLatestUpdateDate(store[ref]): the store it leaves and the value returned
getLatestUpdateDateInPlace(store, ref) ==
  IF Len(store[ref]) = 0 THEN [store |-> store, ret |-> Null]
  ELSE LET s == Array_sort(store, ref, "lastUpdatedCompare")
       IN [store |-> s, ret |-> s[ref][1].lastUpdated]

getLatestUpdateDate(store, ref) ==
  IF Len(store[ref]) = 0 THEN [store |-> store, ret |-> Null]
  ELSE LET s == Array_sort(spread(store, ref, "sorted"), "sorted",
                            "lastUpdatedCompare")
       IN [store |-> s, ret |-> s.sorted[1].lastUpdated]

\* The state a component has when it mounts, and when nothing is mounted
AllLocalInit ==
  [benefits |-> <<>>, loading |-> TRUE, tab |-> "ALL", selectedSido |-> SidoAll,
   districtInput |-> <<>>, filteredBenefits |-> <<>>, displayBenefits |-> <<>>,
   latestDate |-> Null]

\* A render of AllLocalBenefitsPage in the state al: filteredBenefits,
\* displayBenefits and latestDate, and the benefits the render leaves
AllLocalRender(al) ==
  LET s0 == [benefits |-> al.benefits, filtered |-> <<>>, copy |-> <<>>,
             sorted |-> <<>>]
      s1 == [s0 EXCEPT !.filtered =
               SelectSeq(s0.benefits,
                         LAMBDA b : filterCallback(b, al.selectedSido, al.districtInput))]
      s2 == IF al.tab = "ENVY"
              THEN Array_sort(spread(s1, "filtered", "copy"), "copy", "envyCompare")
              ELSE s1
      displayBenefits == IF al.tab = "ENVY" THEN "copy" ELSE "filtered"
      latest == getLatestUpdateDate(s2, displayBenefits)
  IN [al EXCEPT !.benefits = latest.store.benefits,
                !.filteredBenefits = latest.store.filtered,
                !.displayBenefits = latest.store[displayBenefits],
                !.latestDate = latest.ret]

\* What is not AllLocalBenefitsPage's stays as it is
AllLocalFrame ==
  UNCHANGED <<page, user, region, loginBaseInfo, stored, home, login, signup, myinfo,
              result, logins, checks, signupTimers, saveTimers, fetches,
              now, dateString, benefitList>>

AllLocalBenefitsPage_setTab ==
  /\ page = "ALL_LOCAL"
  /\ \E t \in {"ALL", "ENVY"} : alllocal' = AllLocalRender([alllocal EXCEPT !.tab = t])
  /\ call' = NoCall
  /\ UNCHANGED loads
  /\ AllLocalFrame

\* What getAllLocalBenefits of services/benefitService resolves with
TitleSeoul == <<"seo", "ul", " ", "ji", "won", "geum">>
TitleBusan == <<"bu", "san", " ", "ji", "won", "geum">>
LocalBenefit(title, description, regionTarget, envyCount, lastUpdated) ==
  [id |-> 0, title |-> title, description |-> description, source |-> "GOV_LOCAL",
   category |-> "GOV", regionTarget |-> regionTarget, lastUpdated |-> lastUpdated,
   updateType |-> "none", envyCount |-> envyCount]
AllLocalSamples ==
  {LocalBenefit(TitleSeoul, <<"ga">>, SIDO_LIST[2], Count(5),
                numStr(2024) \o <<".">> \o pad2(1) \o <<".">> \o numStr(31)),
   LocalBenefit(TitleBusan, <<"ga">>, SIDO_LIST[5], Count(9),
                numStr(2024) \o <<".">> \o pad2(2) \o <<".">> \o numStr(15)),
   LocalBenefit(TitleSeoul, <<"ga">>, Undefined, Missing, Undefined),
   LocalBenefit(<<"ji", "won", "geum">>, SIDO_LIST[5],
                SIDO_LIST[2] \o <<" ", "ga", "gu">>, Count(0),
                numStr(2023) \o <<".">> \o numStr(12) \o <<".">> \o numStr(15)),
   LocalBenefit(<<"ji", "won", "geum">>, <<"ga">>, <<>>, Count(9),
                numStr(2024) \o <<".">> \o pad2(2) \o <<".">> \o numStr(15))}
SidoSamples == {SIDO_LIST[1], SIDO_LIST[2], SIDO_LIST[5]}
QuerySamples == {<<>>, <<" ", "TAB">>, <<"TAB">> \o SIDO_LIST[5] \o <<" ">>}

AllLocalBenefitsPage_setSelectedSido ==
  /\ page = "ALL_LOCAL"
  /\ \E sido \in SidoSamples :
       alllocal' = AllLocalRender([alllocal EXCEPT !.selectedSido = sido])
  /\ call' = NoCall
  /\ UNCHANGED loads
  /\ AllLocalFrame

AllLocalBenefitsPage_setDistrictInput ==
  /\ page = "ALL_LOCAL"
  /\ \E text \in QuerySamples :
       alllocal' = AllLocalRender([alllocal EXCEPT !.districtInput = text])
  /\ call' = NoCall
  /\ UNCHANGED loads
  /\ AllLocalFrame

\* ======================================================= the specifications
\* The clock and the inputs of the helpers are fixed in the application.
NoNow == [y |-> 1970, m |-> 1, d |-> 1, ms |-> 0]
\* AllLocalBenefitsPage is not mounted
ListIdle == alllocal = AllLocalInit /\ loads = <<>>
PureIdle == now = NoNow /\ dateString = Undefined /\ benefitList = <<>> /\ ListIdle

\* The application after App has mounted: getCurrentUser() gave the persisted user.
InitApp ==
  /\ stored \in StoredSamples
  /\ user = stored
  /\ page = "HOME"
  /\ region = <<>>
  /\ loginBaseInfo = NoInfo
  /\ home = HomeInit(user)
  /\ login = LoginInit
  /\ signup = SignupInit(NoInfo)
  /\ myinfo = MyInfoInit(NullUser)
  /\ result = ResultInit
  /\ logins = <<>> /\ checks = <<>> /\ signupTimers = <<>> /\ saveTimers = <<>>
  /\ fetches = <<>>
  /\ call = NoCall

Init == InitApp /\ PureIdle

Next ==
  \/ HomePage_handleInputChange(HomeSamples)
  \/ HomePage_handleSubmit
  \/ App_handleLoginClick
  \/ HomePage_onMyInfoClick
  \/ App_handleLogout
  \/ LoginPage_handleKakaoLogin
  \/ LoginPage_onCancel
  \/ LoginResolved
  \/ LoginRejected
  \/ SignupPage_edit
  \/ SignupPage_handleSubmit
  \/ SignupPage_onCancel
  \/ NicknameCheckResolved
  \/ NicknameCheckRejected
  \/ SignupTimerFired
  \/ MyInfoPage_setAddress
  \/ MyInfoPage_handleSave
  \/ SaveTimerFired
  \/ MyInfoPage_onBack
  \/ ResultPage_navigate
  \/ FetchResolved(FetchSamples)
  \/ FetchRejected
  \/ AllLocalBenefitsPage_navigate

Spec == Init /\ [][Next]_vars

\* The Home page alone, with every text of at most MaxLen characters typed
InitHome == InitApp /\ stored = NullUser /\ PureIdle

NextHome ==
  \/ HomePage_handleInputChange(typed(home.input))
  \/ HomePage_handleSubmit

SpecHome == InitHome /\ [][NextHome]_vars

\* ------------------------------------------------ the helpers on their own
YearParts == {numStr(2023), numStr(2024), numStr(24), <<>>, <<"a">>}
MonthParts ==
  {numStr(m) : m \in {0, 1, 2, 3, 12, 13}} \cup {pad2(m) : m \in {0, 1, 2, 3}}
    \cup {<<>>, <<"a">>}
DayParts ==
  {numStr(d) : d \in {0, 1, 15, 29, 30, 31, 32}} \cup {pad2(d) : d \in {0, 1}}
    \cup {<<>>, <<"1", "a">>}
DateStrings ==
  {y \o <<".">> \o m \o <<".">> \o d : y \in YearParts, m \in MonthParts, d \in DayParts}
    \cup {y \o <<".">> \o m : y \in YearParts, m \in MonthParts}
    \cup {numStr(2024) \o <<".">> \o m \o <<".">> \o d \o <<".">> \o d :
            m \in {numStr(1), numStr(3)}, d \in {numStr(1), numStr(15)}}
    \cup {Undefined, <<>>, numStr(2024), <<"a">>}

NowDays == {<<2023, 12, 15>>, <<2024, 1, 14>>, <<2024, 1, 30>>, <<2024, 1, 31>>,
            <<2024, 2, 14>>, <<2024, 3, 1>>, <<2024, 3, 31>>}
NowMs == {0, 1, MsPerDay - 1}
Nows == {[y |-> c[1], m |-> c[2], d |-> c[3], ms |-> t] : c \in NowDays, t \in NowMs}

\* new Date(): the clock as a Date
getTime(n) ==
  [nan |-> FALSE, day |-> DayFromYearMonth(n.y, n.m - 1) + n.d - 1, ms |-> n.ms]

InitRecency ==
  /\ InitApp /\ stored = NullUser
  /\ now \in Nows
  /\ dateString \in DateStrings
  /\ benefitList = <<>>
  /\ ListIdle

isRecentUpdate_call ==
  /\ call' = [fn |-> "isRecentUpdate", arg |-> dateString,
              ret |-> isRecentUpdate(dateString, getTime(now)), errorMsg |-> "", alerts |-> <<>>]
  /\ UNCHANGED <<appVars, pureVars>>

NextRecency == isRecentUpdate_call

SpecRecency == InitRecency /\ [][NextRecency]_vars

\* Benefit lists: every combination of a last-updated date and an update type
SampleDates == {Undefined, numStr(2024) \o <<".">> \o pad2(1) \o <<".">> \o numStr(31),
                numStr(2024) \o <<".">> \o pad2(2) \o <<".">> \o numStr(15),
                numStr(2023) \o <<".">> \o numStr(12) \o <<".">> \o numStr(15),
                numStr(2024) \o <<".">> \o pad2(3) \o <<".">> \o numStr(15)}
UpdateTypes == {"none", "NEW", "UPDATE"}
BenefitSamples ==
  {[id |-> 0, source |-> "PRIVATE", category |-> "FREE", regionTarget |-> Undefined,
    lastUpdated |-> d, updateType |-> t] : d \in SampleDates, t \in UpdateTypes}

RECURSIVE ListsUpTo(_)
ListsUpTo(n) ==
  IF n = 0 THEN {<<>>}
  ELSE LET S == ListsUpTo(n - 1)
       IN S \cup {Append(l, [b EXCEPT !.id = n]) :
                    l \in {t \in S : Len(t) = n - 1}, b \in BenefitSamples}

InitStatus ==
  /\ InitApp /\ stored = NullUser
  /\ now \in {[y |-> 2024, m |-> 3, d |-> 1, ms |-> t] : t \in {0, 1}}
  /\ dateString = Undefined
  /\ benefitList \in ListsUpTo(MaxList)
  /\ ListIdle

checkUpdateStatus_call ==
  /\ call' = [fn |-> "checkUpdateStatus", arg |-> benefitList,
              ret |-> checkUpdateStatus(benefitList, getTime(now)), errorMsg |-> "", alerts |-> <<>>]
  /\ UNCHANGED <<appVars, pureVars>>

NextStatus == checkUpdateStatus_call

SpecStatus == InitStatus /\ [][NextStatus]_vars

\* Benefit lists over categories, update types, and a recent and an old date
CategorySamples == {"FREE", "GOV", "ALL"}
BadgeSamples ==
  {[id |-> 0, source |-> "PRIVATE", category |-> c, regionTarget |-> Undefined,
    lastUpdated |-> d, updateType |-> t] :
     c \in CategorySamples, t \in UpdateTypes,
     d \in {numStr(2024) \o <<".">> \o pad2(2) \o <<".">> \o numStr(15),
            numStr(2023) \o <<".">> \o numStr(12) \o <<".">> \o numStr(15)}}

\* The lists of at most n elements of S, the ids numbered by position
RECURSIVE ListsOver(_, _)
ListsOver(S, n) ==
  IF n = 0 THEN {<<>>}
  ELSE LET L == ListsOver(S, n - 1)
       IN L \cup {Append(l, [b EXCEPT !.id = n]) :
                    l \in {t \in L : Len(t) = n - 1}, b \in S}

InitBadges ==
  /\ InitApp /\ stored = NullUser
  /\ now = [y |-> 2024, m |-> 3, d |-> 1, ms |-> 0]
  /\ dateString = Undefined
  /\ benefitList \in ListsOver(BadgeSamples, MaxList)
  /\ ListIdle

computeCategoryBadges_call ==
  /\ call' = [fn |-> "computeCategoryBadges", arg |-> benefitList,
              ret |-> computeCategoryBadges(benefitList, getTime(now)), errorMsg |-> "", alerts |-> <<>>]
  /\ UNCHANGED <<appVars, pureVars>>

NextBadges == computeCategoryBadges_call

SpecBadges == InitBadges /\ [][NextBadges]_vars

\* ---------------------------------------------------- ResultPage on its own
\* The page as it mounts after a search: its effect has called fetchBenefits.
InitResult ==
  /\ stored \in StoredSamples
  /\ user = stored
  /\ page = "RESULT"
  /\ region = AddrValid
  /\ loginBaseInfo = NoInfo
  /\ home = HomeInit(NullUser)
  /\ login = LoginInit
  /\ signup = SignupInit(NoInfo)
  /\ myinfo = MyInfoInit(NullUser)
  /\ result = ResultInit
  /\ logins = <<>> /\ checks = <<>> /\ signupTimers = <<>> /\ saveTimers = <<>>
  /\ fetches = <<[region |-> region, live |-> TRUE]>>
  /\ call = NoCall
  /\ PureIdle

NextResult ==
  \/ FetchResolved(ListsOver(SourceSamples, MaxList))
  \/ FetchRejected

SpecResult == InitResult /\ [][NextResult]_vars

\* ------------------------------------------- AllLocalBenefitsPage on its own
\* The page as it mounts, entered from the Result page: its effect has called
\* getAllLocalBenefits(user?.address).
InitAllLocal ==
  /\ stored \in StoredSamples
  /\ user = stored
  /\ page = "ALL_LOCAL"
  /\ region = AddrValid
  /\ loginBaseInfo = NoInfo
  /\ home = HomeInit(NullUser)
  /\ login = LoginInit
  /\ signup = SignupInit(NoInfo)
  /\ myinfo = MyInfoInit(NullUser)
  /\ result = ResultInit
  /\ logins = <<>> /\ checks = <<>> /\ signupTimers = <<>> /\ saveTimers = <<>>
  /\ fetches = <<>>
  /\ call = NoCall
  /\ now = NoNow /\ dateString = Undefined /\ benefitList = <<>>
  /\ alllocal = AllLocalRender(AllLocalInit)
  /\ loads = <<[address |-> IF user.isNull THEN Undefined ELSE user.address]>>

\* getAllLocalBenefits resolves: setBenefits(data); setLoading(false)
AllLocalLoadResolved ==
  \E i \in 1..Len(loads), data \in ListsOver(AllLocalSamples, MaxList) :
    /\ alllocal' = AllLocalRender([alllocal EXCEPT !.benefits = data,
                                                    !.loading = FALSE])
    /\ loads' = remove(loads, i)
    /\ call' = NoCall
    /\ AllLocalFrame

\* getAllLocalBenefits rejects: load() has no catch, nothing is set
AllLocalLoadRejected ==
  \E i \in 1..Len(loads) :
    /\ loads' = remove(loads, i)
    /\ call' = [NoCall EXCEPT !.fn = "rejected", !.arg = "getAllLocalBenefits",
                              !.alerts = <<>>]
    /\ UNCHANGED alllocal
    /\ AllLocalFrame

NextAllLocal ==
  \/ AllLocalBenefitsPage_setTab
  \/ AllLocalBenefitsPage_setSelectedSido
  \/ AllLocalBenefitsPage_setDistrictInput
  \/ AllLocalLoadResolved
  \/ AllLocalLoadRejected

SpecAllLocal == InitAllLocal /\ [][NextAllLocal]_vars

\* --------------------------------------------- getLatestUpdateDate alone
\* The lastUpdated values of the lists: absent, empty, three zero-padded dates
\* and one that is not padded
LatestDates ==
  {Undefined, <<>>,
   numStr(2024) \o <<".">> \o pad2(1) \o <<".">> \o numStr(31),
   numStr(2023) \o <<".">> \o numStr(12) \o <<".">> \o numStr(15),
   numStr(2024) \o <<".">> \o pad2(2) \o <<".">> \o pad2(5),
   numStr(2024) \o <<".">> \o numStr(3) \o <<".">> \o numStr(1)}
LatestSamples ==
  {[id |-> 0, source |-> "GOV_LOCAL", category |-> "GOV", regionTarget |-> Undefined,
    lastUpdated |-> d, updateType |-> "none"] : d \in LatestDates}

InitLatest ==
  /\ InitApp /\ stored = NullUser
  /\ now = NoNow /\ dateString = Undefined
  /\ benefitList \in ListsOver(LatestSamples, MaxList)
  /\ ListIdle

\* getLatestUpdateDate(benefitList): benefitList is the array as the call leaves it
getLatestUpdateDate_call ==
  LET store == [benefits |-> benefitList, filtered |-> <<>>, copy |-> <<>>,
                sorted |-> <<>>]
      r == getLatestUpdateDate(store, "benefits")
  IN /\ call' = [fn |-> "getLatestUpdateDate", arg |-> benefitList, ret |-> r.ret,
                 errorMsg |-> "", alerts |-> <<>>]
     /\ benefitList' = r.store.benefits
     /\ UNCHANGED <<appVars, now, dateString, alllocal, loads>>

NextLatest == getLatestUpdateDate_call

SpecLatest == InitLatest /\ [][NextLatest]_vars

\* ================================================================ the claims
\* The white-space-delimited tokens of a text, read off the text itself
IsWs(t, i) == t[i] \in WhiteSpace
TokenStarts(t) == {i \in 1..Len(t) : ~IsWs(t, i) /\ (i = 1 \/ IsWs(t, i - 1))}
TokenEnd(t, i) ==
  CHOOSE j \in i..Len(t) :
    /\ \A k \in i..j : ~IsWs(t, k)
    /\ j = Len(t) \/ IsWs(t, j + 1)
Token(t, i) == SubSeq(t, i, TokenEnd(t, i))
TokenCount(t) == Cardinality(TokenStarts(t))
\* the n-th token
NthToken(t, n) ==
  Token(t, CHOOSE i \in TokenStarts(t) :
             Cardinality({j \in TokenStarts(t) : j <= i}) = n)
\* Hangul+ (si|do) Hangul+ (si|gun|gu) at the end of the token
Concatenated(tok) ==
  \E a \in 1..Len(tok), b \in 1..Len(tok) :
    LET n == Len(tok)
        tl == SubSeq(tok, n - (a + b + 1), n)
    IN /\ a + b + 2 <= n
       /\ \A k \in 1..a : tl[k] \in Hangul
       /\ tl[a + 1] \in {"si", "do"}
       /\ \A k \in (a + 2)..(a + 1 + b) : tl[k] \in Hangul
       /\ tl[a + b + 2] \in {"si", "gu"}
SomeConcatenated(t) == \E i \in TokenStarts(t) : Concatenated(Token(t, i))
TwoEndingInSi(t) ==
  TokenCount(t) = 2 /\ LET tok == NthToken(t, 2) IN tok[Len(tok)] = "si"
HasWhiteSpace(t) == \E i \in 1..Len(t) : IsWs(t, i)
\* a space character between two tokens (one that trimming leaves)
HasInnerSpace(t) ==
  \E i \in 1..Len(t) :
    /\ t[i] = " "
    /\ \E j \in 1..(i - 1) : ~IsWs(t, j)
    /\ \E j \in (i + 1)..Len(t) : ~IsWs(t, j)
HasInnerWhiteSpace(t) == TokenCount(t) >= 2

Validated == call.fn = "validateSearchInput"

\* The reason of the first failing rule, "" when no rule fails; space says what
\* rule 2 asks for
FirstReason(t, space) ==
  IF TokenCount(t) = 0 THEN MsgRequired
  ELSE IF ~space THEN MsgSpacing
  ELSE IF SomeConcatenated(t) THEN MsgSpacing
  ELSE IF TokenCount(t) < 2 THEN MsgLevels
  ELSE IF TwoEndingInSi(t) THEN MsgDistrict
  ELSE NoMsg

\* C1 as stated: the validator accepts exactly the texts that are non-empty after
\* trimming, contain white space, have no concatenated token and are not two
\* tokens with the second ending in "si"; a rejection reports the first failing rule.
C1_AsStated ==
  Validated =>
    LET t == call.arg
    IN /\ call.ret = (FirstReason(t, HasInnerWhiteSpace(t)) = NoMsg)
       /\ ~call.ret => call.errorMsg = FirstReason(t, HasInnerWhiteSpace(t))

\* C1 amended: as C1, with "contains white space" read as "contains a space
\* character (U+0020) after trimming": white space of another kind between the
\* tokens does not satisfy rule 2.
C1_Validator ==
  Validated =>
    LET t == call.arg
    IN /\ call.ret = (FirstReason(t, HasInnerSpace(t)) = NoMsg)
       /\ ~call.ret => call.errorMsg = FirstReason(t, HasInnerSpace(t))

C1_Witness ==
  /\ Validated
  /\ ~call.ret
  /\ HasInnerSpace(call.arg)
  /\ SomeConcatenated(call.arg)
  /\ TwoEndingInSi(call.arg)
  /\ call.errorMsg = MsgSpacing

\* C2: a text with no white space character is rejected with the spacing message.
C2_NoWhiteSpaceRejected ==
  (Validated /\ ~HasWhiteSpace(call.arg)) =>
    (~call.ret /\ call.errorMsg = MsgSpacing /\ home.errorMsg = MsgSpacing)

C2_Witness ==
  /\ Validated
  /\ ~HasWhiteSpace(call.arg)
  /\ Len(call.arg) = MaxLen
  /\ home.errorMsg = MsgSpacing

\* C3 as stated: two tokens with the second ending in "si" are rejected with the
\* district reason, and three tokens of which the first two are such are accepted.
C3_AsStated ==
  Validated =>
    LET t == call.arg
    IN /\ TwoEndingInSi(t) => (~call.ret /\ call.errorMsg = MsgDistrict)
       /\ (TokenCount(t) = 3 /\ endsWith(NthToken(t, 2), "si")) => call.ret

\* C3 amended: the same for texts that contain a space character after trimming
\* and have no concatenated token; without these, rules 2 and 3 reject first.
C3_DistrictDetail ==
  (Validated /\ HasInnerSpace(call.arg) /\ ~SomeConcatenated(call.arg)) =>
    LET t == call.arg
    IN /\ TwoEndingInSi(t) => (~call.ret /\ call.errorMsg = MsgDistrict)
       /\ (TokenCount(t) = 3 /\ endsWith(NthToken(t, 2), "si")) => call.ret

C3_Witness ==
  /\ Validated
  /\ HasInnerSpace(call.arg)
  /\ TokenCount(call.arg) = 3
  /\ endsWith(NthToken(call.arg, 2), "si")
  /\ call.ret
  /\ page = "RESULT"

\* A step that ran HomePage.handleSubmit: the only handler that calls the validator
Submitted == page = "HOME" /\ call'.fn = "validateSearchInput"

\* C4: a submit on the Home page calls onSearch, and so changes region and page,
\* only when the validator returned true, and then with the trimmed input; a
\* rejected submit leaves region and page as they were.
C4_SearchOnlyWhenValid ==
  [][Submitted =>
       IF call'.ret
         THEN /\ call'.arg = home.input
              /\ region' = trim(home.input)
              /\ page' = "RESULT"
         ELSE region' = region /\ page' = page]_vars

C4_Witness ==
  /\ Validated
  /\ call.ret
  /\ page = "RESULT"
  /\ region = trim(call.arg)
  /\ region # call.arg

\* C5 as stated: every region given to fetchBenefits is a trimmed text that the
\* validator accepts.
C5_AsStated ==
  \A i \in 1..Len(fetches) :
    /\ trim(fetches[i].region) = fetches[i].region
    /\ validateSearchInput(fetches[i].region, NoMsg).ret

IsLeap(y) == (y % 4 = 0 /\ y % 100 # 0) \/ y % 400 = 0
DaysInMonth(y, m) ==
  IF m = 2 THEN (IF IsLeap(y) THEN 29 ELSE 28)
  ELSE IF m \in {4, 6, 9, 11} THEN 30 ELSE 31
RECURSIVE DaysBeforeMonth(_, _)
DaysBeforeMonth(y, m) ==
  IF m = 1 THEN 0 ELSE DaysBeforeMonth(y, m - 1) + DaysInMonth(y, m - 1)
RECURSIVE DaysBeforeYear(_)
DaysBeforeYear(y) ==
  IF y <= 2023 THEN 0 ELSE DaysBeforeYear(y - 1) + (IF IsLeap(y - 1) THEN 366 ELSE 365)
Ordinal(y, m, d) == DaysBeforeYear(y) + DaysBeforeMonth(y, m) + d

\* The shape of a date string
ThreeIntegers(s) ==
  /\ s # Undefined
  /\ Cardinality({i \in 1..Len(s) : s[i] = "."}) = 2
  /\ \A i \in 1..Len(s) : s[i] \in DigitSet \cup {"."}
  /\ s # <<>> /\ s[1] # "." /\ s[Len(s)] # "."
  /\ \A i \in 1..(Len(s) - 1) : ~(s[i] = "." /\ s[i + 1] = ".")
\* Its three numbers, for a string of three integers
Field(s, n) ==
  LET dots == {i \in 1..Len(s) : s[i] = "."}
      d1 == CHOOSE i \in dots : \A j \in dots : i <= j
      d2 == CHOOSE i \in dots : \A j \in dots : j <= i
  IN decimalValue(IF n = 1 THEN SubSeq(s, 1, d1 - 1)
                  ELSE IF n = 2 THEN SubSeq(s, d1 + 1, d2 - 1)
                  ELSE SubSeq(s, d2 + 1, Len(s)))
\* A day of the calendar, in a four-digit year
CalendarDate(s) ==
  /\ ThreeIntegers(s)
  /\ Field(s, 1) >= 2023
  /\ Field(s, 2) \in 1..12
  /\ Field(s, 3) \in 1..DaysInMonth(Field(s, 1), Field(s, 2))
\* Calendar days from the date of s to today
DaysAgo(s) == Ordinal(now.y, now.m, now.d) - Ordinal(Field(s, 1), Field(s, 2), Field(s, 3))

Classified == call.fn = "isRecentUpdate"

C8_AsStated ==
  (Classified /\ ~ThreeIntegers(call.arg)) => ~call.ret

\* C9 as stated: a date string whose month is outside 1..12, or whose day is not
\* a day of that month, is not recent, whatever the moment.
C9_AsStated ==
  (Classified /\ ThreeIntegers(call.arg) /\ Field(call.arg, 1) >= 100
     /\ ~(/\ Field(call.arg, 2) \in 1..12
          /\ Field(call.arg, 3) \in 1..DaysInMonth(Field(call.arg, 1), Field(call.arg, 2))))
    => ~call.ret

\* ---------------------------------------------------------- update status
\* Recent at the moment now, by the calendar
RecentByCalendar(s) ==
  /\ CalendarDate(s)
  /\ \/ DaysAgo(s) \in 0..(RecentDays - 1)
     \/ DaysAgo(s) = RecentDays /\ now.ms = 0
HasRecent(list, type) ==
  \E i \in 1..Len(list) : RecentByCalendar(list[i].lastUpdated) /\ list[i].updateType = type

\* C10: checkUpdateStatus gives hasNew exactly when some benefit is recent and
\* NEW, and hasUpdate exactly when some benefit is recent and UPDATE; a recent
\* benefit with no update type and a benefit that is not recent set neither.
C10_UpdateStatus ==
  call.fn = "checkUpdateStatus" =>
    /\ call.ret.hasNew = HasRecent(call.arg, "NEW")
    /\ call.ret.hasUpdate = HasRecent(call.arg, "UPDATE")

C10_Witness ==
  /\ call.fn = "checkUpdateStatus"
  /\ Len(call.arg) = MaxList
  /\ \E i \in 1..Len(call.arg) :
       RecentByCalendar(call.arg[i].lastUpdated) /\ call.arg[i].updateType = "none"
  /\ \E i \in 1..Len(call.arg) :
       ~RecentByCalendar(call.arg[i].lastUpdated) /\ call.arg[i].updateType = "NEW"
  /\ \E i \in 1..Len(call.arg) :
       RecentByCalendar(call.arg[i].lastUpdated) /\ call.arg[i].updateType = "UPDATE"
  /\ call.ret = [hasNew |-> FALSE, hasUpdate |-> TRUE]

\* ------------------------------------------------------------------ badges
Aggregated == call.fn = "computeCategoryBadges"
\* The flag f of key c in a mapping, an absent key read as { false, false }
Flag(badges, c, f) == c \in DOMAIN badges /\ badges[c][f]
\* The categories of types.ts that are not the aggregate key
ProperCategories ==
  {"GOV", "FREE", "DISCOUNT", "PACKAGE", "LIFESTYLE", "SUBSCRIPTION", "FINANCE"}
HasRecentIn(list, c, type) ==
  \E i \in 1..Len(list) :
    /\ list[i].category = c
    /\ RecentByCalendar(list[i].lastUpdated)
    /\ list[i].updateType = type

\* C11: computeCategoryBadges sets hasNew (hasUpdate) of a category c exactly when
\* some benefit of category c in the list is recent and NEW (UPDATE), and of
\* 'ALL' exactly when some benefit of any category is recent and NEW (UPDATE).
C11_CategoryBadges ==
  Aggregated =>
    /\ \A c \in ProperCategories :
         /\ Flag(call.ret, c, "hasNew") = HasRecentIn(call.arg, c, "NEW")
         /\ Flag(call.ret, c, "hasUpdate") = HasRecentIn(call.arg, c, "UPDATE")
    /\ Flag(call.ret, "ALL", "hasNew") = HasRecent(call.arg, "NEW")
    /\ Flag(call.ret, "ALL", "hasUpdate") = HasRecent(call.arg, "UPDATE")

C11_Witness ==
  /\ Aggregated
  /\ Len(call.arg) = MaxList
  /\ HasRecentIn(call.arg, "FREE", "UPDATE")
  /\ HasRecentIn(call.arg, "GOV", "NEW")
  /\ \E i \in 1..Len(call.arg) :
       /\ call.arg[i].category = "FREE" /\ call.arg[i].updateType = "NEW"
       /\ ~RecentByCalendar(call.arg[i].lastUpdated)
  /\ call.ret["FREE"] = [hasNew |-> FALSE, hasUpdate |-> TRUE]
  /\ call.ret["GOV"] = [hasNew |-> TRUE, hasUpdate |-> FALSE]
  /\ call.ret["ALL"] = [hasNew |-> TRUE, hasUpdate |-> TRUE]

\* C12: the mapping has no key for the empty list, and for a non-empty list its
\* keys are the categories occurring in the list and 'ALL'; one recent NEW benefit
\* of category FREE gives {FREE: {true, false}, ALL: {true, false}}.
OneRecentNewFree(list) ==
  /\ Len(list) = 1
  /\ list[1].category = "FREE"
  /\ list[1].updateType = "NEW"
  /\ RecentByCalendar(list[1].lastUpdated)

C12_BadgeKeys ==
  Aggregated =>
    /\ DOMAIN call.ret =
         IF call.arg = <<>> THEN {}
         ELSE {call.arg[i].category : i \in 1..Len(call.arg)} \cup {"ALL"}
    /\ OneRecentNewFree(call.arg) =>
         call.ret = [k \in {"FREE", "ALL"} |-> [hasNew |-> TRUE, hasUpdate |-> FALSE]]

C12_Witness ==
  /\ Aggregated
  /\ OneRecentNewFree(call.arg)
  /\ DOMAIN call.ret = {"FREE", "ALL"}

\* C13: the result of checkUpdateStatus on a list is the 'ALL' entry of
\* computeCategoryBadges on the same list, an absent entry read as {false, false}.
C13_StatusIsAllBadge ==
  Aggregated =>
    checkUpdateStatus(call.arg, getTime(now)) =
      [hasNew |-> Flag(call.ret, "ALL", "hasNew"),
       hasUpdate |-> Flag(call.ret, "ALL", "hasUpdate")]

C13_Witness ==
  /\ Aggregated
  /\ Len(call.arg) >= 2
  /\ \A i \in 1..Len(call.arg) : call.arg[i].category # "ALL"
  /\ checkUpdateStatus(call.arg, getTime(now)) = [hasNew |-> FALSE, hasUpdate |-> TRUE]
  /\ call.ret["ALL"] = [hasNew |-> FALSE, hasUpdate |-> TRUE]

\* ------------------------------------------------------- the all-local list
\* q occurs in s
Contains(s, q) ==
  \E a \in 0..Len(s) : \E b \in a..Len(s) : SubSeq(s, a + 1, b) = q
\* The text without its leading and trailing white space
Stripped(t) ==
  LET solid == {i \in 1..Len(t) : ~IsWs(t, i)}
  IN IF solid = {} THEN <<>>
     ELSE SubSeq(t, CHOOSE i \in solid : \A j \in solid : i <= j,
                    CHOOSE i \in solid : \A j \in solid : j <= i)
RegionHas(b, q) == b.regionTarget # Undefined /\ Contains(b.regionTarget, q)
ProvinceActive(sido) == sido # SIDO_LIST[1]
QueryActive(text) == Stripped(text) # <<>>
\* The two stages of the filter, each passing everything while not active
ProvinceStage(b, sido) == ProvinceActive(sido) => RegionHas(b, sido)
TextMatch(b, text) ==
  \/ Contains(b.title, Stripped(text))
  \/ Contains(b.description, Stripped(text))
  \/ RegionHas(b, Stripped(text))
TextStage(b, text) == QueryActive(text) => TextMatch(b, text)
InList(b, list) == \E i \in 1..Len(list) : list[i] = b
ProvinceAlone(list, sido) == SelectSeq(list, LAMBDA b : ProvinceStage(b, sido))
TextAlone(list, text) == SelectSeq(list, LAMBDA b : TextStage(b, text))

C15_TextFilter ==
  /\ QueryActive(alllocal.districtInput) =>
       /\ \A i \in 1..Len(alllocal.filteredBenefits) :
            TextMatch(alllocal.filteredBenefits[i], alllocal.districtInput)
       /\ ~ProvinceActive(alllocal.selectedSido) =>
            alllocal.filteredBenefits =
              SelectSeq(alllocal.benefits,
                        LAMBDA b : TextMatch(b, alllocal.districtInput))
  /\ ~QueryActive(alllocal.districtInput) =>
       \A i \in 1..Len(alllocal.benefits) :
         ProvinceStage(alllocal.benefits[i], alllocal.selectedSido)
           => InList(alllocal.benefits[i], alllocal.filteredBenefits)

C15_Witness ==
  /\ Len(alllocal.benefits) = MaxList
  /\ alllocal.selectedSido = SIDO_LIST[1]
  /\ alllocal.districtInput # Stripped(alllocal.districtInput)
  /\ Stripped(alllocal.districtInput) = SIDO_LIST[5]
  /\ \E i \in 1..Len(alllocal.benefits) :
       /\ alllocal.benefits[i].regionTarget = Undefined
       /\ ~InList(alllocal.benefits[i], alllocal.filteredBenefits)
  /\ \E i \in 1..Len(alllocal.filteredBenefits) :
       /\ ~Contains(alllocal.filteredBenefits[i].title, SIDO_LIST[5])
       /\ ~RegionHas(alllocal.filteredBenefits[i], SIDO_LIST[5])
       /\ Contains(alllocal.filteredBenefits[i].description, SIDO_LIST[5])

\* C16: the filtered list is the fetched list restricted to the benefits that
\* are in the list of the province stage alone and in the list of the free-text
\* stage alone, in fetched order; with province "all" and an empty query it is
\* the fetched list.
C16_StagesCompose ==
  /\ alllocal.filteredBenefits =
       SelectSeq(alllocal.benefits,
                 LAMBDA b : /\ InList(b, ProvinceAlone(alllocal.benefits,
                                                       alllocal.selectedSido))
                            /\ InList(b, TextAlone(alllocal.benefits,
                                                   alllocal.districtInput)))
  /\ (alllocal.selectedSido = SIDO_LIST[1] /\ alllocal.districtInput = <<>>)
       => alllocal.filteredBenefits = alllocal.benefits

C16_Witness ==
  /\ ProvinceActive(alllocal.selectedSido)
  /\ QueryActive(alllocal.districtInput)
  /\ \E i \in 1..Len(alllocal.benefits) :
       /\ ProvinceStage(alllocal.benefits[i], alllocal.selectedSido)
       /\ ~TextStage(alllocal.benefits[i], alllocal.districtInput)
  /\ \E i \in 1..Len(alllocal.benefits) :
       /\ ~ProvinceStage(alllocal.benefits[i], alllocal.selectedSido)
       /\ TextStage(alllocal.benefits[i], alllocal.districtInput)
  /\ Len(alllocal.filteredBenefits) = 1

\* envyCount with a missing one counted as 0, and the place of a benefit in a list
EnvyOf(b) == IF b.envyCount.missing THEN 0 ELSE b.envyCount.v
PlaceIn(list, b) == CHOOSE k \in 1..Len(list) : list[k] = b
Ids(list) == [i \in 1..Len(list) |-> list[i].id]

\* C17: in ENVY mode the displayed list is a permutation of the filtered list,
\* in non-increasing order of envyCount (missing counted as 0), benefits of
\* equal envyCount in their order of the filtered list; envyCounts 5, 9, 9 of
\* ids 1, 2, 3 are displayed as 2, 3, 1.
C17_EnvyOrder ==
  alllocal.tab = "ENVY" =>
    LET f == alllocal.filteredBenefits
        d == alllocal.displayBenefits
    IN /\ Len(d) = Len(f)
       /\ \A i \in 1..Len(f) : InList(f[i], d)
       /\ \A i \in 1..Len(d), j \in 1..Len(d) :
            i < j => \/ EnvyOf(d[i]) > EnvyOf(d[j])
                     \/ /\ EnvyOf(d[i]) = EnvyOf(d[j])
                        /\ PlaceIn(f, d[i]) < PlaceIn(f, d[j])
       /\ (Ids(f) = <<1, 2, 3>> /\ [i \in 1..3 |-> EnvyOf(f[i])] = <<5, 9, 9>>)
            => Ids(d) = <<2, 3, 1>>

C17_Witness ==
  /\ alllocal.tab = "ENVY"
  /\ Ids(alllocal.filteredBenefits) = <<1, 2, 3>>
  /\ [i \in 1..3 |-> alllocal.filteredBenefits[i].envyCount] =
       <<Count(5), Count(9), Count(9)>>
  /\ Ids(alllocal.displayBenefits) = <<2, 3, 1>>

\* C18: a step that is not the arrival of the fetched list (a switch of tab, a
\* change of province or query, each with the render that sorts and computes
\* the latest update date) leaves the fetched benefits as they were, elements
\* and order; in the ALL tab the displayed list is the fetched list restricted
\* to the benefits that pass both stages, in fetched order.
C18_SourceKept ==
  [][/\ loads' = loads => alllocal'.benefits = alllocal.benefits
     /\ alllocal'.tab = "ALL" =>
          alllocal'.displayBenefits =
            SelectSeq(alllocal'.benefits,
                      LAMBDA b : /\ ProvinceStage(b, alllocal'.selectedSido)
                                 /\ TextStage(b, alllocal'.districtInput))]_vars

C18_Witness ==
  /\ alllocal.tab = "ALL"
  /\ Len(alllocal.benefits) = MaxList
  /\ alllocal.displayBenefits = alllocal.benefits
  /\ alllocal.latestDate # Null
  /\ alllocal.latestDate # alllocal.benefits[1].lastUpdated
  /\ EnvyOf(alllocal.benefits[1]) < EnvyOf(alllocal.benefits[2])

\* ------------------------------------------------------------ the Result page
KnownSources == {"GOV_NATIONAL", "GOV_LOCAL", "PRIVATE"}
\* The places a benefit has in a list, and a list being in the order of another
Places(list, b) == {k \in 1..Len(list) : list[k] = b}
InOrderOf(sub, list) ==
  \A i \in 1..Len(sub), j \in 1..Len(sub) :
    i < j => \E k \in Places(list, sub[i]), m \in Places(list, sub[j]) : k < m

\* C19: the national, local and private lists are pairwise disjoint, each in
\* fetched order; a fetched benefit of a known source is in exactly one of them,
\* and a benefit of another source in none.
C19_SourcePartition ==
  LET n == result.nationalBenefits
      l == result.localBenefits
      p == result.privateBenefits
  IN /\ \A b \in {n[i] : i \in 1..Len(n)} : ~InList(b, l) /\ ~InList(b, p)
     /\ \A b \in {l[i] : i \in 1..Len(l)} : ~InList(b, p)
     /\ InOrderOf(n, result.benefits)
     /\ InOrderOf(l, result.benefits)
     /\ InOrderOf(p, result.benefits)
     /\ \A i \in 1..Len(result.benefits) :
          LET b == result.benefits[i]
              times == Cardinality(Places(n, b)) + Cardinality(Places(l, b))
                         + Cardinality(Places(p, b))
          IN times = IF b.source \in KnownSources THEN 1 ELSE 0
     /\ \A b \in {n[i] : i \in 1..Len(n)} \cup {l[i] : i \in 1..Len(l)}
                 \cup {p[i] : i \in 1..Len(p)} : InList(b, result.benefits)

C19_Witness ==
  /\ page = "RESULT"
  /\ ~result.loading
  /\ Len(result.benefits) = MaxList
  /\ \E i \in 1..Len(result.benefits) : result.benefits[i].source \notin KnownSources
  /\ Len(result.nationalBenefits) = 1
  /\ Len(result.localBenefits) = 1
  /\ Len(result.privateBenefits) = 0

\* C20: on the Result page every fetch whose page instance is still mounted
\* applies its result when it resolves, whatever the region is by then: the
\* list shown is that of the fetch that resolved last, which can be the list
\* of an older region.
C20_LastResolvedWins ==
  [][(call'.fn = "fetchBenefits" /\ call'.arg.live) =>
       /\ result'.benefits = call'.ret
       /\ result'.loading = FALSE]_vars

C20_Witness ==
  /\ page = "RESULT"
  /\ fetches = <<>>
  /\ call.fn = "fetchBenefits"
  /\ call.arg.live
  /\ call.arg.region # region
  /\ ~result.loading
  /\ result.benefits = call.ret
  /\ \E i \in 1..Len(result.localBenefits) :
       result.localBenefits[i].regionTarget = call.arg.region

\* C21, as stated: on the Result page and on the all-local page the loading
\* flag is true in every state in which a fetch started by the displayed page
\* has not resolved yet.
C21_AsStated ==
  /\ (page = "RESULT" /\ \E i \in 1..Len(fetches) : fetches[i].live) => result.loading
  /\ loads # <<>> => alllocal.loading

\* C22, as stated: every step in which an asynchronous call rejects shows exactly
\* one alert.
C22_AsStated ==
  call.fn = "rejected" => Len(call.alerts) = 1

\* C23, as stated: no failure leaves a page stuck in its loading state.  A busy
\* flag that is set has an operation pending whose completion clears it: a
\* login for isLoading, a nickname check or the completion timer for
\* submitting, a fetch of the mounted page for loading.
C23_AsStated ==
  /\ (page = "LOGIN" /\ login.isLoading) => \E i \in 1..Len(logins) : logins[i].live
  /\ (page = "SIGNUP" /\ signup.submitting) =>
       \/ \E i \in 1..Len(checks) : checks[i].live
       \/ signupTimers # <<>>
  /\ (page = "RESULT" /\ result.loading) => \E i \in 1..Len(fetches) : fetches[i].live

\* C24: in signup the nickname check starts only from a submit whose trimmed
\* nickname is non-empty and whose privacy box is ticked; the completion timer
\* starts only when that check answers true; saveUser and onComplete run only
\* from that timer, with a user whose nickname is non-empty and whose
\* privacyAgreed is true.  A submit with an empty trimmed nickname sets the
\* inline nickname error and starts neither the check nor the save.
C24_SignupGate ==
  [][/\ (call'.fn = "SignupPage.handleSubmit" /\ trim(call'.arg.nickname) = <<>>) =>
          /\ signup'.nicknameError = MsgNicknameRequired
          /\ ~signup'.submitting
          /\ checks' = checks
          /\ signupTimers' = signupTimers
          /\ stored' = stored /\ user' = user
     /\ Len(checks') > Len(checks) =>
          /\ call'.fn = "SignupPage.handleSubmit"
          /\ trim(call'.arg.nickname) # <<>>
          /\ call'.arg.privacyAgreed
          /\ checks'[Len(checks')].nickname = call'.arg.nickname
     /\ Len(signupTimers') > Len(signupTimers) =>
          /\ call'.fn = "checkNicknameAvailability"
          /\ call'.ret = TRUE
          /\ signupTimers'[Len(signupTimers')].nickname = trim(call'.arg.nickname)
          /\ signupTimers'[Len(signupTimers')].nickname # <<>>
          /\ signupTimers'[Len(signupTimers')].privacyAgreed
     /\ call'.fn = "onComplete" =>
          /\ \E i \in 1..Len(signupTimers) : signupTimers[i] = call'.arg
          /\ call'.arg.nickname # <<>>
          /\ call'.arg.privacyAgreed
          /\ stored' = call'.arg
          /\ user' = call'.arg
     /\ (stored' # stored /\ ~stored'.isNull) => call'.fn \in {"onComplete", "onUpdate"}]_vars

C24_Witness ==
  /\ call.fn = "onComplete"
  /\ stored = call.arg
  /\ user = call.arg
  /\ call.arg.nickname = <<"a">>
  /\ call.arg.privacyAgreed

\* C25, as stated: while no user is logged in, the current user and the
\* persisted user stay null until a signup completes; the 600 ms timer of a
\* save started before the logout does not set or persist the user.
C25_AsStated ==
  [][((user.isNull /\ ~user'.isNull) \/ (stored.isNull /\ ~stored'.isNull)) =>
       call'.fn = "onComplete"]_vars

\* C26, as stated: a signup attempt whose page was cancelled has no further
\* effect, so saveUser and onComplete run only while the signup page is still
\* displayed, and no step taken on another page saves a user out of a signup.
C26_AsStated ==
  [][call'.fn = "onComplete" => page = "SIGNUP"]_vars

\* C27, as stated: the page changes to SIGNUP only as the outcome of a login
\* whose page is still displayed; a login that resolves after its page was
\* cancelled does not move the application to SIGNUP.
C27_AsStated ==
  [][(page # "SIGNUP" /\ page' = "SIGNUP") =>
       /\ call'.fn = "onLoginSuccess"
       /\ call'.arg.live
       /\ page = "LOGIN"]_vars

\* C28: in every reachable state the page displayed has the data it renders
\* from: MY_INFO has a user, SIGNUP has the profile of the login, RESULT and
\* ALL_LOCAL have a non-empty region.
C28_PageHasData ==
  /\ page = "MY_INFO" => ~user.isNull
  /\ page = "SIGNUP" => ~loginBaseInfo.isNull
  /\ page \in {"RESULT", "ALL_LOCAL"} => region # <<>>

\* My Info opened from the Result page by a user who signed up in this session
C28_Witness ==
  /\ page = "MY_INFO"
  /\ ~user.isNull
  /\ ~loginBaseInfo.isNull
  /\ region # <<>>

\* C29: the rule "fewer than two tokens" of validateSearchInput never rejects.
\* A text of fewer than two tokens is rejected before it, as empty or as
\* lacking a space, so the province-and-city reason is never the reason of a
\* call and never the message displayed.
C29_LevelsRuleNeverRejects ==
  /\ home.errorMsg # MsgLevels
  /\ Validated =>
       /\ call.errorMsg # MsgLevels
       /\ TokenCount(call.arg) < 2 =>
            /\ ~call.ret
            /\ call.errorMsg = IF TokenCount(call.arg) = 0 THEN MsgRequired
                               ELSE MsgSpacing

\* One token typed with a space after it: trimming removes the space
C29_Witness ==
  /\ Validated
  /\ TokenCount(call.arg) = 1
  /\ call.arg[Len(call.arg)] = " "
  /\ ~call.ret
  /\ call.errorMsg = MsgSpacing
  /\ home.errorMsg = MsgSpacing

\* Strings in the order of their code units; an absent string counts as empty
CodeUnit(ch) ==
  IF ch = "." THEN 46 ELSE IF ch \in DigitSet THEN 48 + DigitValue(ch) ELSE 97
RECURSIVE StringLeq(_, _)
StringLeq(a, b) ==
  IF a = <<>> THEN TRUE
  ELSE IF b = <<>> THEN FALSE
  ELSE IF CodeUnit(Head(a)) # CodeUnit(Head(b)) THEN CodeUnit(Head(a)) < CodeUnit(Head(b))
  ELSE StringLeq(Tail(a), Tail(b))
AsString(s) == IF s = Undefined THEN <<>> ELSE s
\* YYYY.MM.DD, zero-padded, a day of the calendar
ZeroPadded(s) ==
  /\ s # Undefined
  /\ Len(s) = 10
  /\ \A i \in 1..10 : IF i \in {5, 8} THEN s[i] = "." ELSE s[i] \in DigitSet
  /\ CalendarDate(s)
DayOf(s) == Ordinal(Field(s, 1), Field(s, 2), Field(s, 3))

\* C30: getLatestUpdateDate returns null for an empty list and otherwise a
\* lastUpdated of the list that no other exceeds in string order, an absent one
\* counting as the empty string; when every lastUpdated present is a
\* zero-padded YYYY.MM.DD date the value returned is the latest day among
\* them; the list passed is left in its order.
C30_LatestUpdateDate ==
  call.fn = "getLatestUpdateDate" =>
    LET l == call.arg
        dates == {l[i].lastUpdated : i \in 1..Len(l)}
    IN /\ benefitList = l
       /\ IF l = <<>> THEN call.ret = Null
          ELSE /\ call.ret \in dates
               /\ \A d \in dates : StringLeq(AsString(d), AsString(call.ret))
               /\ ((\A d \in dates : d # Undefined => ZeroPadded(d))
                     /\ dates # {Undefined}) =>
                    /\ ZeroPadded(call.ret)
                    /\ \A d \in dates \ {Undefined} : DayOf(d) <= DayOf(call.ret)

\* The latest date is the last of three, after an absent one and an older one
C30_Witness ==
  /\ call.fn = "getLatestUpdateDate"
  /\ Len(call.arg) = 3
  /\ call.arg[1].lastUpdated = Undefined
  /\ ZeroPadded(call.arg[2].lastUpdated)
  /\ ZeroPadded(call.arg[3].lastUpdated)
  /\ DayOf(call.arg[2].lastUpdated) < DayOf(call.arg[3].lastUpdated)
  /\ call.ret = call.arg[3].lastUpdated
  /\ benefitList = call.arg

====
